---- MODULE Spec2Model ----
(***************************************************************************)
(* The PyHPO REST API (api/main.py, api/helpers.py, api/routers/*.py and   *)
(* the monolithic server.py) on top of the pyhpo ontology library.         *)
(*                                                                         *)
(* The process builds the ontology and four enrichment models once, then   *)
(* serves requests.  Each handler is an `async def` without an await in    *)
(* its body, so one request is one atomic step of the event loop.          *)
(*                                                                         *)
(* Strings that the code parses or formats (term identifiers, names,       *)
(* search queries) are sequences of one-character strings, so that int(),  *)
(* 'HP:%07d' and substring search are computed, not assumed.               *)
(***************************************************************************)
EXTENDS Integers, Sequences, FiniteSets, TLC

VARIABLES
    pc,               \* position of the startup script api/main.py
    dataFile,         \* the annotation records the build reads (input)
    parents,          \* term -> set of parent terms      (Ontology)
    children,         \* term -> set of child terms       (Ontology)
    genes,            \* term -> set of associated genes  (HPOTerm.genes)
    omim_diseases,    \* term -> set of associated OMIM diseases
    gene_model,       \* terms.gene_model
    omim_model,       \* terms.omim_model
    hpo_model_genes,  \* terms.hpo_model_genes
    hpo_model_omim,   \* terms.hpo_model_omim
    request,          \* the request being answered, or NoRequest
    response          \* its response, or NoResponse

vars == <<pc, dataFile, parents, children, genes, omim_diseases,
          gene_model, omim_model, hpo_model_genes, hpo_model_omim,
          request, response>>

ontologyVars == <<parents, children, genes, omim_diseases>>
modelVars == <<gene_model, omim_model, hpo_model_genes, hpo_model_omim>>

----------------------------------------------------------------------------
(* Bounds of the model *)

\* longest comma-separated identifier list a request carries
MaxTokens == 2
\* largest `limit` query parameter
MaxLimit == 3
\* largest `offset` query parameter
MaxOffset == 2
\* most members of an operand of the set algebra
MaxMembers == 2
\* longest candidate list of the selection loop run on its own
MaxCandidates == 3

----------------------------------------------------------------------------
(* Generic helpers *)

Min(a, b) == IF a <= b THEN a ELSE b
Max(a, b) == IF a >= b THEN a ELSE b

Range(s) == {s[i] : i \in DOMAIN s}

\* Python slice s[lo:hi] for 0 <= lo, 0 <= hi
Slice(s, lo, hi) == SubSeq(s, lo + 1, Min(hi, Len(s)))

RECURSIVE SeqOfSet(_)
\* a set of integers as the ascending sequence of its members
SeqOfSet(S) ==
    IF S = {} THEN <<>>
    ELSE LET m == CHOOSE x \in S : \A y \in S : x <= y
         IN  <<m>> \o SeqOfSet(S \ {m})

NoDuplicates(s) == \A i, j \in DOMAIN s : i # j => s[i] # s[j]

----------------------------------------------------------------------------
(* Characters, int() and 'HP:%07d' *)

DigitChars == <<"0", "1", "2", "3", "4", "5", "6", "7", "8", "9">>

IsDigit(c) == \E i \in DOMAIN DigitChars : DigitChars[i] = c

DigitVal(c) == (CHOOSE i \in DOMAIN DigitChars : DigitChars[i] = c) - 1

RECURSIVE DecimalValue(_)
DecimalValue(s) ==
    IF s = <<>> THEN 0
    ELSE 10 * DecimalValue(SubSeq(s, 1, Len(s) - 1)) + DigitVal(s[Len(s)])

AllDigits(s) == s # <<>> /\ \A i \in DOMAIN s : IsDigit(s[i])

\* Python int(str): an optional sign followed by decimal digits.
\* ok = FALSE stands for ValueError.
PyInt(s) ==
    IF AllDigits(s) THEN [ok |-> TRUE, val |-> DecimalValue(s)]
    ELSE IF Len(s) > 1 /\ s[1] = "+" /\ AllDigits(Tail(s))
         THEN [ok |-> TRUE, val |-> DecimalValue(Tail(s))]
    ELSE IF Len(s) > 1 /\ s[1] = "-" /\ AllDigits(Tail(s))
         THEN [ok |-> TRUE, val |-> 0 - DecimalValue(Tail(s))]
    ELSE [ok |-> FALSE, val |-> 0]

RECURSIVE Decimal(_)
\* str(n) for n >= 0
Decimal(n) ==
    IF n < 10 THEN <<DigitChars[n + 1]>>
    ELSE Decimal(n \div 10) \o <<DigitChars[(n % 10) + 1]>>

RECURSIVE ZeroPad(_, _)
ZeroPad(s, width) == IF Len(s) >= width THEN s ELSE ZeroPad(<<"0">> \o s, width)

\* width of the numeric part of the canonical identifier, 'HP:0000822'
IdWidth == 7

\* 'HP:%07d' % n
FormatId(n) == <<"H", "P", ":">> \o ZeroPad(Decimal(n), IdWidth)

\* values a handler passes to the ontology: an int or a str
IntId(n) == [tag |-> "int", val |-> n]
StrId(s) == [tag |-> "str", val |-> s]

----------------------------------------------------------------------------
(* The ontology file: terms, names and is_a edges.  The is_a relation is   *)
(* a DAG with a root (1), a diamond (4 below 2 and 3) and a leaf (5) that   *)
(* is below 3 and also directly below the root.                            *)

OboTerms == {1, 2, 3, 4, 5}

OboName(t) ==
    CASE t = 1 -> <<"a", "l", "l">>
      [] t = 2 -> <<"e", "y", "e">>
      [] t = 3 -> <<"e", "a", "r">>
      [] t = 4 -> <<"e", "y", "e", "l", "i", "d">>
      [] t = 5 -> <<"l", "i", "d">>

OboIsA(t) ==
    CASE t = 1 -> {}
      [] t = 2 -> {1}
      [] t = 3 -> {1}
      [] t = 4 -> {2, 3}
      [] t = 5 -> {1, 3}

\* identities of the annotation records
GeneIds == {11, 12, 13, 14, 15}
OmimIds == {21, 22, 23, 24, 25}

NoTerms == [t \in {} |-> {}]
NotBuilt == [built |-> FALSE]
NoRequest == [op |-> "none"]
NoResponse == [status |-> 0]

None == [found |-> FALSE]
Some(t) == [found |-> TRUE, term |-> t]

----------------------------------------------------------------------------
(* pyhpo.ontology.Ontology *)

\* the terms the ontology holds
Loaded == DOMAIN parents

\* int(hpo_string.split(':')[1]) of a string that starts with 'HP:'
IsHpoIdString(s) ==
    Len(s) > 3 /\ SubSeq(s, 1, 3) = <<"H", "P", ":">>

\* Ontology.get_hpo_object(identifier): the term, or None
get_hpo_object(identifier) ==
    IF identifier.tag = "int"
    THEN IF identifier.val \in Loaded THEN Some(identifier.val) ELSE None
    ELSE IF IsHpoIdString(identifier.val)
    THEN LET n == PyInt(SubSeq(identifier.val, 4, Len(identifier.val)))
         IN  IF n.ok /\ n.val \in Loaded THEN Some(n.val) ELSE None
    ELSE IF \E t \in Loaded : OboName(t) = identifier.val
         THEN Some(CHOOSE t \in Loaded : OboName(t) = identifier.val)
         ELSE None

\* query occurs in text as a contiguous substring
Contains(text, query) ==
    \E i \in 0..(Len(text) - Len(query)) :
        SubSeq(text, i + 1, i + Len(query)) = query

\* Ontology.search(query): the matching terms, in ascending term id
search(query) == SeqOfSet({t \in Loaded : Contains(OboName(t), query)})

RECURSIVE AncestorsIn(_, _, _)
\* terms reachable from t by one or more edges of relation rel
AncestorsIn(rel, frontier, seen) ==
    LET next == UNION {rel[x] : x \in frontier} \ seen
    IN  IF next = {} THEN seen ELSE AncestorsIn(rel, next, seen \cup next)

\* all_parents of a term: every term reachable via parent edges, not the term
ancestors(t) == AncestorsIn(parents, {t}, {})

\* HPOTerm.child_of(other): other is among the ancestors of the term
child_of(t, other) == other \in ancestors(t)

\* HPOTerm.parent_of(other): other is a child of the term
parent_of(t, other) == child_of(other, t)

----------------------------------------------------------------------------
(* Startup: api/main.py, module level *)

\* an ontology in which the root is in turn filed below term 4
LoadOntologyWithCycle ==
    /\ pc = "ontology"
    /\ parents' = [t \in OboTerms |-> IF t = 1 THEN {4} ELSE OboIsA(t)]
    /\ children' = [t \in OboTerms |->
                        {c \in OboTerms : t \in OboIsA(c)}
                            \cup (IF t = 4 THEN {1} ELSE {})]
    /\ genes' = [t \in OboTerms |-> {}]
    /\ omim_diseases' = [t \in OboTerms |-> {}]
    /\ pc' = "annotations"
    /\ UNCHANGED <<dataFile, modelVars, request, response>>

\* Ontology(): terms and is_a edges; children are the transpose of parents
LoadOntology ==
    /\ pc = "ontology"
    /\ parents' = [t \in OboTerms |-> OboIsA(t)]
    /\ children' = [t \in OboTerms |-> {c \in OboTerms : t \in OboIsA(c)}]
    /\ genes' = [t \in OboTerms |-> {}]
    /\ omim_diseases' = [t \in OboTerms |-> {}]
    /\ pc' = "annotations"
    /\ UNCHANGED <<dataFile, modelVars, request, response>>

\* direct links of the annotation records; a record that names a term the
\* ontology does not hold is skipped
LoadAnnotations ==
    /\ pc = "annotations"
    /\ genes' = [t \in Loaded |-> {g \in GeneIds : t \in dataFile.genes[g]}]
    /\ omim_diseases' =
           [t \in Loaded |-> {d \in OmimIds : t \in dataFile.omim[d]}]
    /\ pc' = "propagate"
    /\ UNCHANGED <<dataFile, parents, children, modelVars, request, response>>

\* propagation that stops at the direct parents
ParentsOnlyTargets(t) == parents[t]

\* the terms a link on term t is added to by propagation
PropagationTargets(t) == ancestors(t)

\* every link of a term is added to each of its ancestors
Propagated(assoc) ==
    [t \in Loaded |->
        assoc[t] \cup UNION {assoc[c] : c \in {x \in Loaded :
                                                 t \in PropagationTargets(x)}}]

Propagate ==
    /\ pc = "propagate"
    /\ genes' = Propagated(genes)
    /\ omim_diseases' = Propagated(omim_diseases)
    /\ pc' = "gene_model"
    /\ UNCHANGED <<dataFile, parents, children, modelVars, request, response>>

\* EnrichmentModel(kind): item -> the terms it is associated with
EnrichmentModel(kind, ids, assoc) ==
    [built |-> TRUE, kind |-> kind,
     hpo |-> [i \in ids |-> {t \in Loaded : i \in assoc[t]}]]

\* HPOEnrichment(kind): term -> the items associated with it
HPOEnrichment(kind, ids, assoc) ==
    [built |-> TRUE, kind |-> kind, ids |-> ids,
     items |-> [t \in Loaded |-> assoc[t]]]

BuildGeneModel ==
    /\ pc = "gene_model"
    /\ gene_model' = EnrichmentModel("gene", GeneIds, genes)
    /\ pc' = "omim_model"
    /\ UNCHANGED <<dataFile, ontologyVars, omim_model, hpo_model_genes,
                   hpo_model_omim, request, response>>

BuildOmimModel ==
    /\ pc = "omim_model"
    /\ omim_model' = EnrichmentModel("omim", OmimIds, omim_diseases)
    /\ pc' = "hpo_model_genes"
    /\ UNCHANGED <<dataFile, ontologyVars, gene_model, hpo_model_genes,
                   hpo_model_omim, request, response>>

\* the third model is set and the routers are included next, before the
\* fourth model is built
BuildHpoModelGenesThenRouters ==
    /\ pc = "hpo_model_genes"
    /\ hpo_model_genes' = HPOEnrichment("gene", GeneIds, genes)
    /\ pc' = "routers"
    /\ UNCHANGED <<dataFile, ontologyVars, gene_model, omim_model,
                   hpo_model_omim, request, response>>

BuildHpoModelGenes ==
    /\ pc = "hpo_model_genes"
    /\ hpo_model_genes' = HPOEnrichment("gene", GeneIds, genes)
    /\ pc' = "hpo_model_omim"
    /\ UNCHANGED <<dataFile, ontologyVars, gene_model, omim_model,
                   hpo_model_omim, request, response>>

BuildHpoModelOmim ==
    /\ pc = "hpo_model_omim"
    /\ hpo_model_omim' = HPOEnrichment("omim", OmimIds, omim_diseases)
    /\ pc' = "routers"
    /\ UNCHANGED <<dataFile, ontologyVars, gene_model, omim_model,
                   hpo_model_genes, request, response>>

\* app.include_router(...): from here on requests are served
IncludeRouters ==
    /\ pc = "routers"
    /\ pc' = "serving"
    /\ UNCHANGED <<dataFile, ontologyVars, modelVars, request, response>>

----------------------------------------------------------------------------
(* Exact arithmetic for the enrichment scores: a score is a fraction in    *)
(* lowest terms, so that equal scores are equal values.                    *)

RECURSIVE Factorial(_)
Factorial(n) == IF n <= 1 THEN 1 ELSE n * Factorial(n - 1)

\* n choose k, 0 outside 0 <= k <= n
Binomial(n, k) ==
    IF n < 0 \/ k < 0 \/ k > n THEN 0
    ELSE Factorial(n) \div (Factorial(k) * Factorial(n - k))

RECURSIVE Gcd(_, _)
Gcd(a, b) == IF b = 0 THEN a ELSE Gcd(b, a % b)

Fraction(num, den) ==
    LET g == Gcd(num, den)
    IN  IF g = 0 THEN [num |-> num, den |-> den]
        ELSE [num |-> num \div g, den |-> den \div g]

RECURSIVE SumOver(_, _, _)
\* f[lo] + ... + f[hi]
SumOver(f, lo, hi) == IF lo > hi THEN 0 ELSE f[lo] + SumOver(f, lo + 1, hi)

\* probability of at least n successes in a sample of size q drawn from a
\* population of N holding K successes
HypergeomSf(n, N, K, q) ==
    LET top == Min(K, q)
        term == [i \in n..top |-> Binomial(K, i) * Binomial(N - K, q - i)]
    IN  Fraction(SumOver(term, n, top), Binomial(N, q))

ScoreLess(a, b) == a.num * b.den < b.num * a.den
ScoreLeq(a, b) == a.num * b.den <= b.num * a.den

----------------------------------------------------------------------------
(* Python list operations *)

\* position at which sorted() places an entry with score x in the sorted
\* list s: behind every entry whose score is not larger (stable)
InsertPos(s, x) == Cardinality({i \in DOMAIN s : ScoreLeq(s[i].enrichment, x)})

RECURSIVE SortedByEnrichment(_)
\* sorted(s, key=lambda x: x['enrichment'])
SortedByEnrichment(s) ==
    IF s = <<>> THEN <<>>
    ELSE LET front == SortedByEnrichment(SubSeq(s, 1, Len(s) - 1))
             last == s[Len(s)]
             k == InsertPos(front, last.enrichment)
         IN  SubSeq(front, 1, k) \o <<last>> \o SubSeq(front, k + 1, Len(front))

\* s[offset:] for offset >= 0
DropFirst(s, offset) == SubSeq(s, offset + 1, Len(s))

RECURSIVE Dedup(_)
\* the members of s in order of first occurrence
Dedup(s) ==
    IF s = <<>> THEN <<>>
    ELSE LET front == Dedup(SubSeq(s, 1, Len(s) - 1))
         IN  IF s[Len(s)] \in Range(front) THEN front
             ELSE Append(front, s[Len(s)])

----------------------------------------------------------------------------
(* pyhpo.set.HPOSet: an ordered, duplicate-free sequence of terms *)

\* HPOSet(items): the items in order, each once
HPOSet(items) == Dedup(items)

\* HPOSet.add(term): in-place insertion, no-op if already present
add(set1, t) == IF t \in Range(set1) THEN set1 ELSE Append(set1, t)

\* HPOSet.union(other): a new set with the members of both
union(set1, other) == Dedup(set1 \o other)

\* an intersection that returns the members of the left operand
intersection_left(set1, other) == set1

\* HPOSet.intersection(other): a new set with the members that are in both
intersection(set1, other) == SelectSeq(set1, LAMBDA t : t \in Range(other))

\* HPOSet.from_queries(queries): the set, or InvalidTermReference with the
\* queries that do not resolve
from_queries(queries) ==
    LET found == [i \in DOMAIN queries |-> get_hpo_object(queries[i])]
        bad == {i \in DOMAIN queries : ~found[i].found}
    IN  IF bad # {}
        THEN [raised |-> TRUE, error |-> "InvalidTermReference",
              offending |-> [k \in 1..Cardinality(bad) |-> queries[SeqOfSet(bad)[k]]]]
        ELSE [raised |-> FALSE,
              value |-> Dedup([i \in DOMAIN queries |-> found[i].term])]

\* HPOSet.all_genes() / HPOSet.omim_diseases(): union over the members
all_genes(set1) == UNION {genes[t] : t \in Range(set1)}
set_omim_diseases(set1) == UNION {omim_diseases[t] : t \in Range(set1)}

----------------------------------------------------------------------------
(* pyhpo.stats: EnrichmentModel.enrichment and HPOEnrichment.enrichment *)

\* the hypergeometric method, the only one implemented
Hypergeom == "hypergeom"

\* one entry per item of the model, in ascending item id
ItemScores(model, set1) ==
    LET ids == SeqOfSet(DOMAIN model.hpo)
        N == Len(ids)
    IN  [k \in DOMAIN ids |->
            LET n == Cardinality(model.hpo[ids[k]] \cap Range(set1))
            IN  [item |-> ids[k], count |-> n,
                 enrichment |-> HypergeomSf(n, N,
                                    Cardinality(model.hpo[ids[k]]), Len(set1))]]

\* EnrichmentModel.enrichment(method, hposet): ascending score, ties in
\* ascending item id
enrichment(model, method, set1) ==
    IF method # Hypergeom
    THEN [raised |-> TRUE, error |-> "UnsupportedMethod"]
    ELSE [raised |-> FALSE, value |-> SortedByEnrichment(ItemScores(model, set1))]

\* one entry per term of the model, in ascending term id
TermScores(model, seeds) ==
    LET ts == SeqOfSet(DOMAIN model.items)
        N == Cardinality(model.ids)
    IN  [k \in DOMAIN ts |->
            LET n == Cardinality(model.items[ts[k]] \cap Range(seeds))
            IN  [hpo |-> ts[k], count |-> n,
                 enrichment |-> HypergeomSf(n, N,
                                    Cardinality(model.items[ts[k]]),
                                    Cardinality(Range(seeds)))]]

\* HPOEnrichment.enrichment(method, items): ascending score, ties in
\* ascending term id
hpo_enrichment(model, method, seeds) ==
    IF method # Hypergeom
    THEN [raised |-> TRUE, error |-> "UnsupportedMethod"]
    ELSE [raised |-> FALSE, value |-> SortedByEnrichment(TermScores(model, seeds))]

----------------------------------------------------------------------------
(* Outcomes of a call and HTTP responses *)

\* the detail strings of the HTTP failures
NotFoundDetail ==
    <<"H", "P", "O", " ", "T", "e", "r", "m", " ", "d", "o", "e",
      "s", " ", "n", "o", "t", " ", "e", "x", "i", "s", "t">>

InvalidIdentifierDetail ==
    <<"I", "n", "v", "a", "l", "i", "d", " ", "H", "P", "O", " ",
      "T", "e", "r", "m", " ", "i", "d", "e", "n", "t", "i", "f",
      "i", "e", "r", " ", "i", "n", " ", "q", "u", "e", "r", "y">>

InternalServerError ==
    <<"I", "n", "t", "e", "r", "n", "a", "l", " ", "S", "e", "r",
      "v", "e", "r", " ", "E", "r", "r", "o", "r">>

Returned(v) == [raised |-> FALSE, value |-> v]

\* raise HTTPException(status_code=status, detail=detail)
HTTPException(status, detail) ==
    [raised |-> TRUE, error |-> "HTTPException",
     status |-> status, detail |-> detail]

\* an exception other than HTTPException leaves the handler
Raised(error) == [raised |-> TRUE, error |-> error]

\* the JSON document of a failure: {"detail": ...}
FailureJSON(detail) == [detail |-> detail]

\* what the framework sends for the outcome of a handler: the returned
\* value with status 200, the status and detail of an HTTPException, or
\* status 500 for any other exception
ResponseOf(outcome) ==
    IF ~outcome.raised
    THEN [status |-> 200, exception |-> "", body |-> outcome.value]
    ELSE IF outcome.error = "HTTPException"
    THEN [status |-> outcome.status, exception |-> "",
          body |-> FailureJSON(outcome.detail)]
    ELSE [status |-> 500, exception |-> outcome.error,
          body |-> FailureJSON(InternalServerError)]

\* HPOTerm.toJSON(): the fields of api/models.py HPO that identify the term
toJSON(t) == [int |-> t, id |-> FormatId(t), name |-> OboName(t)]

\* HPOSet.toJSON() and [t.toJSON() for t in set1]
SetJSON(set1) == [i \in DOMAIN set1 |-> toJSON(set1[i])]

\* Gene.toJSON() / Omim.toJSON(): the identity of the annotation record
ItemJSON(i) == [id |-> i]

\* a returned Python list as a JSON document
ListJSON(s) == [items |-> s]

\* [x.toJSON() for x in S] for a Python set S: a list of the members of S in
\* the iteration order of the set, which the model leaves open
ListOfSet(S) == [members |-> S]

----------------------------------------------------------------------------
(* api/helpers.py *)

\* the lookup without the `term is None` test
get_hpo_term_unchecked(termid) ==
    LET n == PyInt(termid)
        identifier == IF n.ok THEN IntId(n.val) ELSE StrId(termid)
    IN  Returned(get_hpo_object(identifier))

get_hpo_term(termid) ==
    LET n == PyInt(termid)
        identifier == IF n.ok THEN IntId(n.val) ELSE StrId(termid)
        term == get_hpo_object(identifier)
    IN  IF term = None
        THEN HTTPException(404, NotFoundDetail)
        ELSE Returned(get_hpo_object(identifier))

\* the token handed on as the string it arrived as
get_hpo_id_unparsed(termid) == StrId(termid)

get_hpo_id(termid) ==
    LET n == PyInt(termid)
    IN  IF n.ok THEN IntId(n.val) ELSE StrId(termid)

RECURSIVE Split(_)
\* str.split(','): the pieces between the commas, empty pieces included
Split(s) ==
    IF \A i \in DOMAIN s : s[i] # ","
    THEN <<s>>
    ELSE LET k == CHOOSE i \in DOMAIN s :
                      s[i] = "," /\ \A j \in 1..(i - 1) : s[j] # ","
         IN  <<SubSeq(s, 1, k - 1)>> \o Split(SubSeq(s, k + 1, Len(s)))

\* a set built from the tokens that resolve, the others dropped
get_hpo_set_lenient(set_query) ==
    LET tokens == Split(set_query)
        found == [i \in DOMAIN tokens |->
                     get_hpo_object(get_hpo_id(tokens[i]))]
    IN  Returned(SeqOfSet({found[i].term :
                              i \in {j \in DOMAIN tokens : found[j].found}}))

\* the resolved terms as a plain list, one entry per token
get_hpo_set_as_list(set_query) ==
    LET tokens == Split(set_query)
        found == [i \in DOMAIN tokens |->
                     get_hpo_object(get_hpo_id(tokens[i]))]
    IN  IF \E i \in DOMAIN tokens : ~found[i].found
        THEN HTTPException(400, InvalidIdentifierDetail)
        ELSE Returned([i \in DOMAIN tokens |-> found[i].term])

get_hpo_set(set_query) ==
    LET tokens == Split(set_query)
        r == from_queries([i \in DOMAIN tokens |-> get_hpo_id(tokens[i])])
    IN  IF r.raised
        THEN HTTPException(400, InvalidIdentifierDetail)
        ELSE Returned(r.value)

\* the term of the handler's expression `get_hpo_term(term_id).<attribute>`:
\* AttributeError when the helper returned None
TermOf(r) ==
    IF r.raised THEN r
    ELSE IF ~r.value.found THEN Raised("AttributeError")
    ELSE Returned(r.value.term)

----------------------------------------------------------------------------
(* api/routers/term.py *)

HPO_term(term_id) ==
    LET term == TermOf(get_hpo_term(term_id))
    IN  IF term.raised THEN term ELSE Returned(toJSON(term.value))

ParentsJSON(t) == ListOfSet({toJSON(p) : p \in parents[t]})
parent_terms(term_id) ==
    LET term == TermOf(get_hpo_term(term_id))
    IN  IF term.raised THEN term ELSE Returned(ParentsJSON(term.value))

ChildrenJSON(t) == ListOfSet({toJSON(c) : c \in children[t]})
child_terms(term_id) ==
    LET term == TermOf(get_hpo_term(term_id))
    IN  IF term.raised THEN term ELSE Returned(ChildrenJSON(term.value))

RECURSIVE Related(_, _)
\* the terms the nested loops visit: for each term of s, in order, the
\* terms related to it by rel
Related(rel, s) ==
    IF s = <<>> THEN <<>>
    ELSE SeqOfSet(rel[Head(s)]) \o Related(rel, Tail(s))

RECURSIVE NeighbourLoopKeepsParents(_, _, _, _, _)
\* the loop without the test `t not in parents`
NeighbourLoopKeepsParents(neighbours, visited, term, ps, cs) ==
    IF visited = <<>> THEN neighbours
    ELSE LET t == Head(visited)
         IN  IF t # term /\ t \notin Range(cs)
             THEN NeighbourLoopKeepsParents(add(neighbours, t),
                                            Tail(visited), term, ps, cs)
             ELSE NeighbourLoopKeepsParents(neighbours, Tail(visited), term,
                                            ps, cs)

RECURSIVE NeighbourLoop(_, _, _, _, _)
\* for t in ...: if t != term and t not in parents and t not in children:
\*     neighbours.add(t)
NeighbourLoop(neighbours, visited, term, ps, cs) ==
    IF visited = <<>> THEN neighbours
    ELSE LET t == Head(visited)
         IN  IF t # term /\ t \notin Range(ps) /\ t \notin Range(cs)
             THEN NeighbourLoop(add(neighbours, t), Tail(visited), term,
                                ps, cs)
             ELSE NeighbourLoop(neighbours, Tail(visited), term, ps, cs)

Neighbours(term) ==
    LET ps == HPOSet(SeqOfSet(parents[term]))
        cs == HPOSet(SeqOfSet(children[term]))
        viaParents == NeighbourLoop(HPOSet(<<>>), Related(children, ps),
                                    term, ps, cs)
    IN  NeighbourLoop(viaParents, Related(parents, cs), term, ps, cs)

NeighboursJSON(t) ==
    [parents |-> ParentsJSON(t), children |-> ChildrenJSON(t),
     neighbours |-> ListJSON(SetJSON(Neighbours(t)))]
neighbour_terms(term_id) ==
    LET term == TermOf(get_hpo_term(term_id))
    IN  IF term.raised THEN term ELSE Returned(NeighboursJSON(term.value))

GenesOf(t) == ListOfSet({ItemJSON(g) : g \in genes[t]})
term_associated_genes(term_id) ==
    LET term == TermOf(get_hpo_term(term_id))
    IN  IF term.raised THEN term ELSE Returned(GenesOf(term.value))

OmimOf(t) == ListOfSet({ItemJSON(d) : d \in omim_diseases[t]})
term_associated_OMIM_diseases(term_id) ==
    LET term == TermOf(get_hpo_term(term_id))
    IN  IF term.raised THEN term ELSE Returned(OmimOf(term.value))

----------------------------------------------------------------------------
(* server.py, the single-file server *)

\* the handler without try / except: the AttributeError leaves the handler
server_HPO_term_uncaught(term_id) ==
    LET term == get_hpo_object(get_hpo_id(term_id))
    IN  IF ~term.found
        THEN Raised("AttributeError")
        ELSE Returned(toJSON(term.term))

\* Ontology.get_hpo_object(term_id).toJSON(...) inside try / except
\* AttributeError
server_HPO_term(term_id) ==
    LET term == get_hpo_object(get_hpo_id(term_id))
    IN  IF ~term.found
        THEN HTTPException(404, NotFoundDetail)
        ELSE Returned(toJSON(term.term))

\* parent_terms, child_terms, term_associated_genes and
\* term_associated_OMIM_diseases of server.py:
\*     term_id = get_hpo_id(term_id)
\*     try: return [x.toJSON() for x in
\*                  Ontology.get_hpo_object(term_id).<attribute>]
\*     except AttributeError: raise HTTPException(404, ...)
server_term_attribute(op, term_id) ==
    LET term == get_hpo_object(get_hpo_id(term_id))
        tried == IF ~term.found THEN Raised("AttributeError")
                 ELSE Returned(
                     CASE op = "server_parent_terms" -> ParentsJSON(term.term)
                       [] op = "server_child_terms" -> ChildrenJSON(term.term)
                       [] op = "server_term_associated_genes" ->
                              GenesOf(term.term)
                       [] op = "server_term_associated_OMIM_diseases" ->
                              OmimOf(term.term))
    IN  IF tried.raised /\ tried.error = "AttributeError"
        THEN HTTPException(404, NotFoundDetail)
        ELSE tried

----------------------------------------------------------------------------
(* api/routers/terms.py *)

RECURSIVE SearchLoopInclusive(_, _, _, _, _)
\* the loop with the break test `idx > (offset + limit)`
SearchLoopInclusive(found, idx, res, limit, offset) ==
    IF idx >= Len(found) THEN res
    ELSE IF idx > (offset + limit) THEN res
    ELSE IF idx < offset
         THEN SearchLoopInclusive(found, idx + 1, res, limit, offset)
         ELSE SearchLoopInclusive(found, idx + 1, Append(res, found[idx + 1]),
                                  limit, offset)

RECURSIVE SearchLoop(_, _, _, _, _)
\* for idx, term in enumerate(found): break / continue / append
\* idx counts from 0; found[idx + 1] is the term at position idx
SearchLoop(found, idx, res, limit, offset) ==
    IF idx >= Len(found) THEN res
    ELSE IF idx > (offset + limit - 1) THEN res
    ELSE IF idx < offset
         THEN SearchLoop(found, idx + 1, res, limit, offset)
         ELSE SearchLoop(found, idx + 1, Append(res, found[idx + 1]),
                         limit, offset)

SearchPage(query, limit, offset) ==
    SearchLoop(search(query), 0, <<>>, limit, offset)

HPO_search(query, limit, offset) ==
    LET res == SearchPage(query, limit, offset)
    IN  Returned(ListJSON([i \in DOMAIN res |-> toJSON(res[i])]))

RECURSIVE IntersectLoopJoins(_, _, _)
\* the loop with `|` in place of `&`
IntersectLoopJoins(acc, set1, assoc) ==
    IF set1 = <<>> THEN acc
    ELSE IntersectLoopJoins(acc \cup assoc[Head(set1)], Tail(set1), assoc)

RECURSIVE IntersectLoop(_, _, _)
\* for term in set1: acc = acc & assoc[term]
IntersectLoop(acc, set1, assoc) ==
    IF set1 = <<>> THEN acc
    ELSE IntersectLoop(acc \cap assoc[Head(set1)], Tail(set1), assoc)

IntersectOmim(set1) ==
    LET diseases == IntersectLoop(set_omim_diseases(set1), set1,
                                  omim_diseases)
    IN  Returned(ListOfSet({ItemJSON(d) : d \in diseases}))
intersecting_OMIM_diseases(set1) ==
    LET r == get_hpo_set(set1)
    IN  IF r.raised THEN r ELSE IntersectOmim(r.value)

IntersectGenes(set1) ==
    LET found == IntersectLoop(all_genes(set1), set1, genes)
    IN  Returned(ListOfSet({ItemJSON(g) : g \in found}))
intersecting_genes(set1) ==
    LET r == get_hpo_set(set1)
    IN  IF r.raised THEN r ELSE IntersectGenes(r.value)

UnionOmim(set1) ==
    Returned(ListOfSet({ItemJSON(d) : d \in set_omim_diseases(set1)}))
union_OMIM_diseases(set1) ==
    LET r == get_hpo_set(set1)
    IN  IF r.raised THEN r ELSE UnionOmim(r.value)

UnionGenes(set1) ==
    Returned(ListOfSet({ItemJSON(g) : g \in all_genes(set1)}))
union_genes(set1) ==
    LET r == get_hpo_set(set1)
    IN  IF r.raised THEN r ELSE UnionGenes(r.value)

\* the page counted from the end of the ranking: res[::-1][offset:(limit+offset)]
EnrichmentPageFromEnd(res, limit, offset) ==
    Slice([i \in DOMAIN res |-> res[Len(res) + 1 - i]], offset, limit + offset)

\* the page res[offset:(limit+offset)] of a ranking
EnrichmentPage(res, limit, offset) == Slice(res, offset, limit + offset)

\* {key: x['item'].toJSON(), 'count': x['count'],
\*  'enrichment': x['enrichment']}
EnrichmentJSON(key, x) ==
    key :> ItemJSON(x.item) @@ "count" :> x.count
        @@ "enrichment" :> x.enrichment

\* the page res[offset:limit], `limit` read as the end of the page
EnrichmentOfUpToLimit(model, key, method, limit, offset, set1) ==
    LET res == enrichment(model, method, set1)
    IN  IF res.raised THEN res
        ELSE LET page == Slice(res.value, offset, limit)
             IN  Returned(ListJSON([i \in DOMAIN page |->
                                       EnrichmentJSON(key, page[i])]))

EnrichmentOf(model, key, method, limit, offset, set1) ==
    LET res == enrichment(model, method, set1)
    IN  IF res.raised THEN res
        ELSE LET page == EnrichmentPage(res.value, limit, offset)
             IN  Returned(ListJSON([i \in DOMAIN page |->
                                       EnrichmentJSON(key, page[i])]))

gene_enrichment(set1, method, limit, offset) ==
    LET r == get_hpo_set(set1)
    IN  IF r.raised THEN r
        ELSE EnrichmentOf(gene_model, "gene:", method, limit, offset, r.value)

omim_enrichment(set1, method, limit, offset) ==
    LET r == get_hpo_set(set1)
    IN  IF r.raised THEN r
        ELSE EnrichmentOf(omim_model, "omim:", method, limit, offset, r.value)

\* the items of ranking[0:n+1]
TopItemsInclusive(ranking, n) ==
    LET top == Slice(ranking, 0, n + 1) IN [i \in DOMAIN top |-> top[i].item]

\* [x['item'] for x in ranking[0:n]]
TopItems(ranking, n) ==
    LET top == Slice(ranking, 0, n) IN [i \in DOMAIN top |-> top[i].item]

\* the term-level ranking seeded by the top n items of the item ranking;
\* [] when n is 0
SeededRanking(item_model, hpo_model, method, set1, n) ==
    IF n = 0 THEN Returned(<<>>)
    ELSE LET items == enrichment(item_model, method, set1)
         IN  IF items.raised THEN items
             ELSE hpo_enrichment(hpo_model, method, TopItems(items.value, n))

\* sorted(omim_res + gene_res, key=lambda x: x['enrichment'])
MergedCandidates(omim_res, gene_res) == SortedByEnrichment(omim_res \o gene_res)

RECURSIVE SelectLoopKeepsQueryTerms(_, _, _, _)
\* the loop without the test `hpo not in set1`
SelectLoopKeepsQueryTerms(res, hpos, limit, set1) ==
    IF ~(Len(hpos) < limit) THEN Returned(hpos)
    ELSE IF res = <<>> THEN Raised("IndexError")
    ELSE LET hpo == Head(res).hpo
         IN  IF hpo \notin Range(hpos)
             THEN SelectLoopKeepsQueryTerms(Tail(res), Append(hpos, hpo),
                                            limit, set1)
             ELSE SelectLoopKeepsQueryTerms(Tail(res), hpos, limit, set1)

RECURSIVE SelectLoop(_, _, _, _)
\* while len(hpos) < limit: hpo = res.pop(0)['hpo'] ...
SelectLoop(res, hpos, limit, set1) ==
    IF ~(Len(hpos) < limit) THEN Returned(hpos)
    ELSE IF res = <<>> THEN Raised("IndexError")
    ELSE LET hpo == Head(res).hpo
         IN  IF hpo \notin Range(hpos) /\ hpo \notin Range(set1)
             THEN SelectLoop(Tail(res), Append(hpos, hpo), limit, set1)
             ELSE SelectLoop(Tail(res), hpos, limit, set1)

\* the candidate list the selection loop consumes, or the exception of
\* an enrichment call
SuggestCandidates(set1, method, offset, n_genes, n_omim) ==
    LET omim_res == SeededRanking(omim_model, hpo_model_omim, method,
                                  set1, n_omim)
        gene_res == IF omim_res.raised THEN omim_res
                    ELSE SeededRanking(gene_model, hpo_model_genes, method,
                                       set1, n_genes)
    IN  IF omim_res.raised THEN omim_res
        ELSE IF gene_res.raised THEN gene_res
        ELSE Returned(DropFirst(MergedCandidates(omim_res.value,
                                                 gene_res.value), offset))

\* a suggestion that pages through the selected terms: the selection runs
\* on the whole candidate list and `offset` selected terms are skipped
hpo_suggest_paging_selection(set1, method, limit, offset, n_genes, n_omim) ==
    LET r == get_hpo_set(set1)
    IN  IF r.raised THEN r
        ELSE LET res == SuggestCandidates(r.value, method, 0, n_genes, n_omim)
             IN  IF res.raised THEN res
                 ELSE LET hpos == SelectLoop(res.value, <<>>, limit + offset,
                                             r.value)
                      IN  IF hpos.raised THEN hpos
                          ELSE Returned(ListJSON(SetJSON(
                                   DropFirst(hpos.value, offset))))

hpo_suggest(set1, method, limit, offset, n_genes, n_omim) ==
    LET r == get_hpo_set(set1)
    IN  IF r.raised THEN r
        ELSE LET res == SuggestCandidates(r.value, method, offset,
                                          n_genes, n_omim)
             IN  IF res.raised THEN res
                 ELSE LET hpos == SelectLoop(res.value, <<>>, limit, r.value)
                      IN  IF hpos.raised THEN hpos
                          ELSE Returned(ListJSON(SetJSON(hpos.value)))

----------------------------------------------------------------------------
(* pyhpo similarity: information content, the pairwise methods of       *)
(* HPOTerm.similarity_score and HPOSet.similarity(other, kind, method,     *)
(* combine).  Scores are exact fractions.                                  *)

FracAdd(a, b) == Fraction(a.num * b.den + b.num * a.den, a.den * b.den)
FracMax(a, b) == IF ScoreLess(a, b) THEN b ELSE a
FracMul(a, b) == Fraction(a.num * b.num, a.den * b.den)

\* a - b, and 0 where b exceeds a
FracMinus(a, b) ==
    IF ScoreLeq(a, b) THEN Fraction(0, 1)
    ELSE Fraction(a.num * b.den - b.num * a.den, a.den * b.den)

\* the names of Similarity_Method and Combination_Method
SimilarityNames ==
    {"resnik", "lin", "jc", "jc2", "rel", "ic", "graphic", "dist", "equal"}
CombinationNames == {"funSimAvg", "funSimMax", "BMA"}

\* the frequency of term t for an annotation kind: the size of its
\* propagated set; a term without annotations counts like the rarest
\* annotated term of the corpus (it gets the maximum information content)
Frequency(kind, t) ==
    LET assoc == IF kind = "gene" THEN genes ELSE omim_diseases
        seen == {Cardinality(assoc[x]) : x \in Loaded} \ {0}
        rarest == IF seen = {} THEN Cardinality(OmimIds)
                  ELSE CHOOSE f \in seen : \A g \in seen : f <= g
    IN  IF assoc[t] = {} THEN rarest ELSE Cardinality(assoc[t])

\* IC(term, kind) = -ln(frequency / total) for a corpus of five items, as a
\* fraction in quarters: ln(5/1), ln(5/2), ln(5/3), ln(5/4), ln(5/5)
\* rounded to 6/4, 4/4, 2/4, 1/4, 0
InformationContent(kind, t) ==
    Fraction(<<6, 4, 2, 1, 0>>[Frequency(kind, t)], 4)

\* the common ancestors of two terms, a term counting as its own ancestor
CommonAncestors(a, b) ==
    (ancestors(a) \cup {a}) \cap (ancestors(b) \cup {b})

\* the most informative common ancestor, ties to the lowest term id
Mica(kind, a, b) ==
    LET common == CommonAncestors(a, b)
        best == {m \in common : \A x \in common :
                    ScoreLeq(InformationContent(kind, x),
                             InformationContent(kind, m))}
    IN  CHOOSE m \in best : \A x \in best : m <= x

RECURSIVE StepsUp(_, _, _)
\* length of the shortest path of parent edges from the frontier to m
StepsUp(frontier, m, d) ==
    IF m \in frontier THEN d
    ELSE StepsUp(UNION {parents[x] : x \in frontier}, m, d + 1)

\* HPOTerm.similarity_score(other, kind, method); found = FALSE for a name
\* that is no method
TermSimilarity(method, kind, a, b) ==
    LET Score(ica, icb, mica, icm) ==
            LET total == FracAdd(ica, icb)
                twice == FracAdd(icm, icm)
                gap == FracMinus(FracAdd(ica, icb), FracAdd(icm, icm))
                lin == IF total.num = 0 THEN Fraction(0, 1)
                       ELSE Fraction(twice.num * total.den,
                                     twice.den * total.num)
                largest == Fraction(2 * 6, 4)
                one == Fraction(1, 1)
                Inverse(d) == Fraction(d.den, d.num)
            IN  CASE method = "resnik" -> icm
                  [] method = "lin" -> lin
                  [] method = "jc" -> Inverse(FracAdd(gap, one))
                  [] method = "jc2" ->
                        FracMinus(one, FracMul(gap, Inverse(largest)))
                  [] method = "rel" ->
                        FracMul(lin, Fraction(Cardinality(OmimIds)
                                                  - Frequency(kind, mica),
                                              Cardinality(OmimIds)))
                  [] method = "ic" ->
                        FracMul(lin,
                                FracMinus(one, Inverse(FracAdd(one, icm))))
                  [] method = "graphic" ->
                        Fraction(Cardinality(CommonAncestors(a, b)),
                                 Cardinality(ancestors(a) \cup {a}
                                             \cup ancestors(b) \cup {b}))
                  [] method = "dist" ->
                        IF a = b THEN one
                        ELSE Fraction(1, StepsUp({a}, mica, 0)
                                         + StepsUp({b}, mica, 0))
                  [] method = "equal" ->
                        IF a = b THEN one ELSE Fraction(0, 1)
        WithMica(mica) ==
            Score(InformationContent(kind, a), InformationContent(kind, b),
                  mica, InformationContent(kind, mica))
    IN  IF method \in SimilarityNames
        THEN [found |-> TRUE, score |-> WithMica(Mica(kind, a, b))]
        ELSE [found |-> FALSE]

RECURSIVE BestMatchSum(_, _, _, _)
\* the sum over the terms of s1 of the best score against a term of s2
BestMatchSum(method, kind, s1, s2) ==
    IF s1 = <<>> THEN Fraction(0, 1)
    ELSE LET scores == {TermSimilarity(method, kind, Head(s1), s2[j]).score :
                           j \in DOMAIN s2}
         IN  FracAdd(CHOOSE x \in scores : \A y \in scores : ScoreLeq(y, x),
                     BestMatchSum(method, kind, Tail(s1), s2))

\* the mean over the terms of s1 of the best match in s2
BestMatchMean(method, kind, s1, s2) ==
    LET MeanOf(total) == Fraction(total.num, total.den * Len(s1))
    IN  MeanOf(BestMatchSum(method, kind, s1, s2))

\* the combination that takes the row-wise means for every name
set_similarity_by_rows(set1, set2, kind, method, combine) ==
    IF method \notin SimilarityNames THEN Raised("UnknownMethod")
    ELSE IF set1 = <<>> \/ set2 = <<>> THEN Returned(Fraction(0, 1))
    ELSE IF combine \in CombinationNames
         THEN Returned(BestMatchMean(method, kind, set1, set2))
         ELSE Raised("UnknownMethod")

set_similarity(set1, set2, kind, method, combine) ==
    LET Combined(rows, cols) ==
            CASE combine = "funSimAvg" ->
                    LET HalfOf(total) == Fraction(total.num, 2 * total.den)
                    IN  Returned(HalfOf(FracAdd(rows, cols)))
              [] combine = "funSimMax" -> Returned(FracMax(rows, cols))
              [] combine = "BMA" -> Returned(rows)
              [] OTHER -> Raised("UnknownMethod")
    IN  IF method \notin SimilarityNames THEN Raised("UnknownMethod")
        ELSE IF set1 = <<>> \/ set2 = <<>> THEN Returned(Fraction(0, 1))
        ELSE Combined(BestMatchMean(method, kind, set1, set2),
                      BestMatchMean(method, kind, set2, set1))

terms_similarity(set1, set2, method, combine, kind) ==
    LET r1 == get_hpo_set(set1)
        r2 == get_hpo_set(set2)
    IN  IF r1.raised THEN r1
        ELSE IF r2.raised THEN r2
        ELSE LET sim == set_similarity(r1.value, r2.value, kind, method,
                                       combine)
             IN  IF sim.raised THEN sim
                 ELSE Returned([set1 |-> SetJSON(r1.value),
                                set2 |-> SetJSON(r2.value),
                                similarity |-> sim.value])

----------------------------------------------------------------------------
(* Requests *)

\* identifier tokens of single-term requests: the three forms of every
\* term, and tokens that name no term
TermTokens ==
    UNION {{FormatId(t), Decimal(t), OboName(t)} : t \in OboTerms}
    \cup {FormatId(9), Decimal(9), <<"z", "z">>, ZeroPad(Decimal(4), 3)}

\* tokens of comma-separated identifier lists
SetTokens ==
    {FormatId(2), Decimal(4), FormatId(4), OboName(5),
     FormatId(9), <<"z", "z">>}

RECURSIVE JoinComma(_)
JoinComma(tokens) ==
    IF Len(tokens) = 1 THEN tokens[1]
    ELSE tokens[1] \o <<",">> \o JoinComma(Tail(tokens))

TokenLists(tokens) == UNION {[1..n -> tokens] : n \in 1..MaxTokens}

\* the query strings of intersect, union and similarity requests
SetQueries == {JoinComma(l) : l \in TokenLists(SetTokens)}

\* tokens of the identifier lists of enrichment and suggest requests
RankTokens == {FormatId(2), Decimal(4), OboName(5), <<"z", "z">>}

\* the query strings of enrichment and suggest requests
RankQueries == {JoinComma(l) : l \in TokenLists(RankTokens)}

\* first operand of a similarity request: lists over two forms of term 4,
\* the name of term 5 and a token that names no term
SimilarityQueries ==
    {JoinComma(l) :
        l \in TokenLists({Decimal(4), FormatId(4), OboName(5), <<"z", "z">>})}

\* second operand of a similarity request
OtherQueries == {OboName(5), <<"z", "z">>}

SearchQueries ==
    {<<>>, <<"e">>, <<"l">>, <<"l", "i", "d">>, <<"e", "y", "e">>, <<"z">>}

Limits == 0..MaxLimit
Offsets == 0..MaxOffset
SeedCounts == {0, 1, 2}
Methods == {"hypergeom", "fisher"}
SimilarityMethods == SimilarityNames \cup {"cosine"}
CombineMethods == CombinationNames \cup {"mean"}

\* the annotation files the served process is built from
FileA ==
    [genes |-> (11 :> {1} @@ 12 :> {1, 5} @@ 13 :> {5} @@ 14 :> {3, 4}
                @@ 15 :> {}),
     omim |-> (21 :> {1, 3} @@ 22 :> {2, 5} @@ 23 :> {1} @@ 24 :> {5}
               @@ 25 :> {4})]

FileB ==
    [genes |-> (11 :> {} @@ 12 :> {9} @@ 13 :> {5} @@ 14 :> {1, 2}
                @@ 15 :> {2, 3}),
     omim |-> (21 :> {} @@ 22 :> {5} @@ 23 :> {2, 5} @@ 24 :> {1, 4}
               @@ 25 :> {5})]

ServedFiles == {FileA, FileB}

\* term references of one annotation record set; 9 names no term
TermRefChoices ==
    {{}} \cup {{t} : t \in OboTerms \cup {9}} \cup {{2, 5}, {4, 5}}

\* annotation files for the build
AnnotationFiles ==
    {[genes |-> (11 :> a @@ 12 :> b @@ 13 :> {5} @@ 14 :> {3, 4}
                 @@ 15 :> {}),
      omim |-> (21 :> c @@ 22 :> {2, 5} @@ 23 :> {1} @@ 24 :> {5}
                @@ 25 :> {4})] :
        a \in TermRefChoices, b \in TermRefChoices, c \in TermRefChoices}

----------------------------------------------------------------------------
(* Serving: one action per handler *)

Serving == pc = "serving" /\ request = NoRequest

\* the first term of an intersect request loses the annotations that are
\* not in the result, as `term.omim_diseases &= diseases` would do
AnnotationsAfterUpdateInPlace(req, assoc) ==
    IF req.op \in {"intersecting_OMIM_diseases", "intersecting_genes"}
          /\ ~get_hpo_set(req.set1).raised
    THEN LET set1 == get_hpo_set(req.set1).value
         IN  [assoc EXCEPT ![set1[1]] =
                 IntersectLoop(assoc[set1[1]], set1, assoc)]
    ELSE assoc

\* the annotation sets of the terms after the handler of req has run: a
\* handler binds what it computes to local names (`diseases = diseases &
\* term.omim_diseases`, HPOSet(term.parents), HPOSet([]), sorted(...)[offset:])
\* and applies add, append and pop(0) to those objects only, so every term
\* keeps its sets
AnnotationsAfter(req, assoc) == assoc

Answer(req, outcome) ==
    /\ request' = req
    /\ response' = ResponseOf(outcome)
    /\ genes' = AnnotationsAfter(req, genes)
    /\ omim_diseases' = AnnotationsAfter(req, omim_diseases)
    /\ UNCHANGED <<pc, dataFile, parents, children, modelVars>>

ServeTerm ==
    /\ Serving
    /\ \E term_id \in TermTokens :
        Answer([op |-> "HPO_term", term_id |-> term_id], HPO_term(term_id))

ServeParents ==
    /\ Serving
    /\ \E term_id \in TermTokens :
        Answer([op |-> "parent_terms", term_id |-> term_id],
               parent_terms(term_id))

ServeChildren ==
    /\ Serving
    /\ \E term_id \in TermTokens :
        Answer([op |-> "child_terms", term_id |-> term_id],
               child_terms(term_id))

ServeNeighbours ==
    /\ Serving
    /\ \E term_id \in TermTokens :
        Answer([op |-> "neighbour_terms", term_id |-> term_id],
               neighbour_terms(term_id))

ServeTermGenes ==
    /\ Serving
    /\ \E term_id \in TermTokens :
        Answer([op |-> "term_associated_genes", term_id |-> term_id],
               term_associated_genes(term_id))

ServeTermOmim ==
    /\ Serving
    /\ \E term_id \in TermTokens :
        Answer([op |-> "term_associated_OMIM_diseases", term_id |-> term_id],
               term_associated_OMIM_diseases(term_id))

ServeServerTerm ==
    /\ Serving
    /\ \E term_id \in TermTokens :
        Answer([op |-> "server_HPO_term", term_id |-> term_id],
               server_HPO_term(term_id))

ServeServerAttribute ==
    /\ Serving
    /\ \E op \in {"server_parent_terms", "server_child_terms",
                   "server_term_associated_genes",
                   "server_term_associated_OMIM_diseases"},
          term_id \in TermTokens :
        Answer([op |-> op, term_id |-> term_id],
               server_term_attribute(op, term_id))

ServeSearch ==
    /\ Serving
    /\ \E query \in SearchQueries, limit \in Limits, offset \in Offsets :
        Answer([op |-> "HPO_search", query |-> query, limit |-> limit,
                offset |-> offset],
               HPO_search(query, limit, offset))

ServeIntersectOmim ==
    /\ Serving
    /\ \E set1 \in SetQueries :
        Answer([op |-> "intersecting_OMIM_diseases", set1 |-> set1],
               intersecting_OMIM_diseases(set1))

ServeIntersectGenes ==
    /\ Serving
    /\ \E set1 \in SetQueries :
        Answer([op |-> "intersecting_genes", set1 |-> set1],
               intersecting_genes(set1))

ServeUnionOmim ==
    /\ Serving
    /\ \E set1 \in SetQueries :
        Answer([op |-> "union_OMIM_diseases", set1 |-> set1],
               union_OMIM_diseases(set1))

ServeUnionGenes ==
    /\ Serving
    /\ \E set1 \in SetQueries :
        Answer([op |-> "union_genes", set1 |-> set1], union_genes(set1))

ServeSimilarity ==
    /\ Serving
    /\ \E set1 \in SimilarityQueries, set2 \in OtherQueries,
          method \in SimilarityMethods, combine \in CombineMethods :
        Answer([op |-> "terms_similarity", set1 |-> set1, set2 |-> set2,
                method |-> method, combine |-> combine, kind |-> "omim"],
               terms_similarity(set1, set2, method, combine, "omim"))

ServeGeneEnrichment ==
    /\ Serving
    /\ \E set1 \in RankQueries, method \in Methods, limit \in Limits,
          offset \in Offsets :
        Answer([op |-> "gene_enrichment", set1 |-> set1, method |-> method,
                limit |-> limit, offset |-> offset],
               gene_enrichment(set1, method, limit, offset))

ServeOmimEnrichment ==
    /\ Serving
    /\ \E set1 \in RankQueries, method \in Methods, limit \in Limits,
          offset \in Offsets :
        Answer([op |-> "omim_enrichment", set1 |-> set1, method |-> method,
                limit |-> limit, offset |-> offset],
               omim_enrichment(set1, method, limit, offset))

ServeSuggest ==
    /\ Serving
    /\ \E set1 \in RankQueries, method \in Methods, limit \in Limits,
          offset \in Offsets, n_genes \in SeedCounts, n_omim \in SeedCounts :
        Answer([op |-> "hpo_suggest", set1 |-> set1, method |-> method,
                limit |-> limit, offset |-> offset, n_genes |-> n_genes,
                n_omim |-> n_omim],
               hpo_suggest(set1, method, limit, offset, n_genes, n_omim))

\* the response is sent; the server waits for the next request
SendResponse ==
    /\ pc = "serving"
    /\ request # NoRequest
    /\ request' = NoRequest
    /\ response' = NoResponse
    /\ UNCHANGED <<pc, dataFile, ontologyVars, modelVars>>

----------------------------------------------------------------------------
(* Specifications *)

Unbuilt ==
    /\ pc = "ontology"
    /\ parents = NoTerms
    /\ children = NoTerms
    /\ genes = NoTerms
    /\ omim_diseases = NoTerms
    /\ gene_model = NotBuilt
    /\ omim_model = NotBuilt
    /\ hpo_model_genes = NotBuilt
    /\ hpo_model_omim = NotBuilt
    /\ request = NoRequest
    /\ response = NoResponse

Init == Unbuilt /\ dataFile \in ServedFiles

Build ==
    \/ LoadOntology
    \/ LoadAnnotations
    \/ Propagate
    \/ BuildGeneModel
    \/ BuildOmimModel
    \/ BuildHpoModelGenes
    \/ BuildHpoModelOmim
    \/ IncludeRouters

Next ==
    \/ LoadOntology
    \/ LoadAnnotations
    \/ Propagate
    \/ BuildGeneModel
    \/ BuildOmimModel
    \/ BuildHpoModelGenes
    \/ BuildHpoModelOmim
    \/ IncludeRouters
    \/ ServeTerm
    \/ ServeParents
    \/ ServeChildren
    \/ ServeNeighbours
    \/ ServeTermGenes
    \/ ServeTermOmim
    \/ ServeServerTerm
    \/ ServeServerAttribute
    \/ ServeIntersectOmim
    \/ ServeIntersectGenes
    \/ ServeUnionOmim
    \/ ServeUnionGenes
    \/ ServeSimilarity
    \/ ServeSearch
    \/ ServeGeneEnrichment
    \/ ServeOmimEnrichment
    \/ ServeSuggest
    \/ SendResponse

Spec == Init /\ [][Next]_vars

\* the build alone, over every annotation file
InitBuild == Unbuilt /\ dataFile \in AnnotationFiles

SpecBuild == InitBuild /\ [][Build]_vars

----------------------------------------------------------------------------
(* The set algebra of HPOSet on its own: operands are drawn from the sets   *)
(* of at most MaxMembers terms and union / intersection is applied.        *)

InitSets ==
    /\ pc = "sets"
    /\ dataFile = FileA
    /\ parents = NoTerms
    /\ children = NoTerms
    /\ genes = NoTerms
    /\ omim_diseases = NoTerms
    /\ gene_model = NotBuilt
    /\ omim_model = NotBuilt
    /\ hpo_model_genes = NotBuilt
    /\ hpo_model_omim = NotBuilt
    /\ request = NoRequest
    /\ response = NoResponse

SetAlgebra ==
    /\ pc = "sets"
    /\ request = NoRequest
    /\ \E n \in 0..MaxMembers, m \in 0..MaxMembers :
        \E a \in [1..n -> OboTerms], b \in [1..m -> OboTerms] :
            /\ a = HPOSet(a)
            /\ b = HPOSet(b)
            /\ \/ /\ request' = [op |-> "union", a |-> a, b |-> b]
                  /\ response' = [status |-> 200, exception |-> "",
                                  body |-> ListJSON(union(a, b))]
               \/ /\ request' = [op |-> "intersection", a |-> a, b |-> b]
                  /\ response' = [status |-> 200, exception |-> "",
                                  body |-> ListJSON(intersection(a, b))]
    /\ UNCHANGED <<pc, dataFile, ontologyVars, modelVars>>

SpecSets == InitSets /\ [][SetAlgebra]_vars

----------------------------------------------------------------------------
(* The selection loop of hpo_suggest on its own, one iteration per step:   *)
(*     hpos = []                                                           *)
(*     while len(hpos) < limit:                                            *)
(*         hpo = res.pop(0)['hpo']                                         *)
(*         if hpo not in hpos and hpo not in set1:                         *)
(*             hpos.append(hpo)                                            *)
(* The request holds the inputs of the loop, the response its progress:    *)
(* status 0 while the loop runs, 200 when the condition of the `while` is  *)
(* false, 500 when pop(0) raises.                                          *)

InitSelect ==
    /\ pc = "select"
    /\ dataFile = FileA
    /\ parents = NoTerms
    /\ children = NoTerms
    /\ genes = NoTerms
    /\ omim_diseases = NoTerms
    /\ gene_model = NotBuilt
    /\ omim_model = NotBuilt
    /\ hpo_model_genes = NotBuilt
    /\ hpo_model_omim = NotBuilt
    /\ \E n \in 0..MaxCandidates, limit \in (0 - 1)..MaxLimit :
        \E terms \in [1..n -> {3, 4, 5}], set1 \in {<<4>>, <<2, 5>>} :
            /\ request = [op |-> "select", limit |-> limit, set1 |-> set1,
                           candidates |-> [i \in 1..n |-> [hpo |-> terms[i]]]]
            /\ response = [status |-> 0, exception |-> "",
                            body |-> [res |-> request.candidates,
                                      hpos |-> <<>>, iterations |-> 0]]

\* an iteration that reads res[0] and leaves it in the list
SelectStepWithoutPop ==
    /\ pc = "select"
    /\ response.status = 0
    /\ LET res == response.body.res
           hpos == response.body.hpos
       IN  IF ~(Len(hpos) < request.limit)
           THEN response' = [response EXCEPT !.status = 200]
           ELSE IF res = <<>>
           THEN response' = [response EXCEPT !.status = 500,
                                             !.exception = "IndexError"]
           ELSE response' =
                    [response EXCEPT
                        !.body.hpos =
                            IF Head(res).hpo \notin Range(hpos)
                                  /\ Head(res).hpo \notin Range(request.set1)
                            THEN Append(hpos, Head(res).hpo)
                            ELSE hpos,
                        !.body.iterations = IF @ < MaxCandidates + 1
                                            THEN @ + 1 ELSE @]
    /\ UNCHANGED <<pc, dataFile, ontologyVars, modelVars, request>>

\* the test of the `while` and, if it holds, one run of the loop body
SelectStep ==
    /\ pc = "select"
    /\ response.status = 0
    /\ LET res == response.body.res
           hpos == response.body.hpos
       IN  IF ~(Len(hpos) < request.limit)
           THEN response' = [response EXCEPT !.status = 200]
           ELSE IF res = <<>>
           THEN response' = [response EXCEPT !.status = 500,
                                             !.exception = "IndexError"]
           ELSE response' =
                    [response EXCEPT
                        !.body.res = Tail(res),
                        !.body.hpos =
                            IF Head(res).hpo \notin Range(hpos)
                                  /\ Head(res).hpo \notin Range(request.set1)
                            THEN Append(hpos, Head(res).hpo)
                            ELSE hpos,
                        !.body.iterations = @ + 1]
    /\ UNCHANGED <<pc, dataFile, ontologyVars, modelVars, request>>

\* the interpreter keeps running the handler until it returns or raises
SpecSelect == InitSelect /\ [][SelectStep]_vars /\ WF_vars(SelectStep)

----------------------------------------------------------------------------
(* Properties *)

\* the annotations are loaded and propagated
PropagationDone == pc \notin {"ontology", "annotations", "propagate"}

\* every term reachable from t by one or more child edges
descendants(t) == AncestorsIn(children, {t}, {})

\* C1: after the annotations are loaded and propagated, the genes and the
\* OMIM diseases of every child are among those of its parent (so a parent
\* has at least as many of each), and those of every term are among those
\* of each of its ancestors.
C1_PropagationInvariant ==
    PropagationDone =>
        \A P \in Loaded :
            /\ \A C \in children[P] :
                /\ genes[C] \subseteq genes[P]
                /\ omim_diseases[C] \subseteq omim_diseases[P]
                /\ Cardinality(genes[P]) >= Cardinality(genes[C])
                /\ Cardinality(omim_diseases[P]) >=
                       Cardinality(omim_diseases[C])
            /\ \A D \in descendants(P) :
                /\ genes[D] \subseteq genes[P]
                /\ omim_diseases[D] \subseteq omim_diseases[P]

\* a gene recorded on term 4 alone has reached the root, two edges up
C1_Witness ==
    /\ PropagationDone
    /\ \E g \in GeneIds :
        /\ dataFile.genes[g] = {4}
        /\ g \in genes[1]
        /\ g \in genes[2] \cap genes[3]
        /\ g \notin genes[5]

----------------------------------------------------------------------------
(* What a request asks for, stated without the handlers' helpers *)

\* the terms an identifier token names: by canonical id, by decimal
\* integer, or by exact name
Denoted(token) ==
    {t \in Loaded :
        \/ token = FormatId(t)
        \/ token = OboName(t)
        \/ AllDigits(token) /\ DecimalValue(token) = t}

SetOps ==
    {"intersecting_OMIM_diseases", "intersecting_genes",
     "union_OMIM_diseases", "union_genes", "terms_similarity",
     "gene_enrichment", "omim_enrichment", "hpo_suggest"}

\* the tokens of the identifier lists of a set request
RequestTokens(req) ==
    Range(Split(req.set1)) \cup
    (IF req.op = "terms_similarity" THEN Range(Split(req.set2)) ELSE {})

\* the tokens of a set request that name no term
Offending(req) == {tok \in RequestTokens(req) : Denoted(tok) = {}}

\* the terms of the query of a set request
QueryTerms(req) == UNION {Denoted(tok) : tok \in Range(Split(req.set1))}

\* the terms of a list of term records, in order
TermsOf(s) == [i \in DOMAIN s |-> s[i].int]

\* the terms of a returned list of term records, in order
BodyTerms(body) == TermsOf(body.items)

\* position of the first entry for term t in a candidate list
FirstIndex(cands, t) ==
    CHOOSE i \in DOMAIN cands :
        cands[i].hpo = t /\ \A j \in 1..(i - 1) : cands[j].hpo # t

\* the candidate list of the hpo_suggest request req with `offset`
\* entries dropped, as an outcome
CandidatesOf(req, offset) ==
    SuggestCandidates(get_hpo_set(req.set1).value, req.method, offset,
                      req.n_genes, req.n_omim)

\* an hpo_suggest request with a resolvable query and an implemented method
SuggestRuns(req) ==
    /\ req.op = "hpo_suggest"
    /\ Offending(req) = {}
    /\ req.method = Hypergeom

\* the distinct candidate terms of req that are not in its query
Eligible(req) ==
    {c.hpo : c \in Range(CandidatesOf(req, req.offset).value)}
        \ QueryTerms(req)

\* C2: hpo_suggest does not fail when the candidates run out: when the
\* candidate list, after `offset` entries are dropped, holds fewer than
\* `limit` distinct terms outside the query, the response is the list of
\* exactly those terms, shorter than `limit`.
C2_SuggestReturnsFewerWhenExhausted ==
    (SuggestRuns(request) /\ Cardinality(Eligible(request)) < request.limit)
        => /\ response.status = 200
           /\ Len(response.body.items) < request.limit
           /\ Range(BodyTerms(response.body)) = Eligible(request)

\* the four properties of a returned suggestion list hs, relative to the
\* candidate list cands
SuggestionShape(hs, cands, req) ==
    /\ Len(hs) <= req.limit
    /\ NoDuplicates(hs)
    /\ \A i \in DOMAIN hs : hs[i] \notin QueryTerms(req)
    /\ \A i \in DOMAIN hs : \E k \in DOMAIN cands : cands[k].hpo = hs[i]
    /\ \A i, j \in DOMAIN hs :
        i < j =>
            /\ FirstIndex(cands, hs[i]) < FirstIndex(cands, hs[j])
            /\ ~ScoreLess(cands[FirstIndex(cands, hs[j])].enrichment,
                          cands[FirstIndex(cands, hs[i])].enrichment)

C4_FailureCarriesOffendingTokens ==
    (request.op \in SetOps /\ Offending(request) # {})
        => /\ response.status = 400
           /\ \A tok \in Offending(request) :
                  Contains(response.body.detail, tok)

\* a set request one of whose tokens names a term and another does not
MixedTokens(req) ==
    /\ req.op \in SetOps
    /\ Offending(req) # {}
    /\ RequestTokens(req) \ Offending(req) # {}

\* C5: set queries are all-or-nothing: on every endpoint of the /terms
\* router that takes an identifier list, a request with at least one token
\* that does not resolve ends in HTTP 400 with the detail 'Invalid HPO Term
\* identifier in query' and returns no result.
C5_SetQueriesAllOrNothing ==
    (request.op \in SetOps /\ Offending(request) # {})
        => /\ response.status = 400
           /\ response.exception = ""
           /\ response.body = FailureJSON(InvalidIdentifierDetail)

\* a union request whose first token names term 4 and whose second names
\* no term was refused
C5_Witness ==
    /\ request.op = "union_genes"
    /\ MixedTokens(request)
    /\ Denoted(Split(request.set1)[1]) = {4}
    /\ response.status = 400
    /\ response.body.detail = InvalidIdentifierDetail

----------------------------------------------------------------------------
(* Single-term lookup *)

TermOps ==
    {"HPO_term", "parent_terms", "child_terms", "neighbour_terms",
     "term_associated_genes", "term_associated_OMIM_diseases",
     "server_HPO_term"}

\* what the handler op returns for term t
TermBody(op, t) ==
    CASE op \in {"HPO_term", "server_HPO_term"} -> toJSON(t)
      [] op = "parent_terms" -> ParentsJSON(t)
      [] op = "child_terms" -> ChildrenJSON(t)
      [] op = "neighbour_terms" -> NeighboursJSON(t)
      [] op = "term_associated_genes" -> GenesOf(t)
      [] op = "term_associated_OMIM_diseases" -> OmimOf(t)

\* C6: a single-term lookup has two outcomes: the result for the term the
\* identifier names, or HTTP 404 'HPO Term does not exist' when it names no
\* term; never an answer without a term or for a different term.
C6_LookupTermOrNotFound ==
    request.op \in TermOps =>
        IF Denoted(request.term_id) = {}
        THEN /\ response.status = 404
             /\ response.body = FailureJSON(NotFoundDetail)
        ELSE \E t \in Denoted(request.term_id) :
                /\ response.status = 200
                /\ response.body = TermBody(request.op, t)

\* the children of a canonical identifier that names no term were asked
\* for, and the answer was 404
C6_Witness ==
    /\ request.op = "child_terms"
    /\ request.term_id = FormatId(9)
    /\ response.status = 404
    /\ response.body.detail = NotFoundDetail

\* the three identifier forms of term t
IdentifierForms(t) == {FormatId(t), Decimal(t), OboName(t)}

\* the term each token of an identifier list names, in list order
TermsNamed(tokens) ==
    [i \in DOMAIN tokens |-> CHOOSE t \in Loaded : t \in Denoted(tokens[i])]

\* C7: for every term T the canonical string 'HP:%07d', the decimal integer
\* and the exact name resolve to T, in a single-term lookup and as a token
\* of an identifier list; get_hpo_id hands a decimal token on as an integer
\* and any other token unchanged.
C7_IdentifierFormsResolveSame ==
    /\ request.op \in {"HPO_term", "server_HPO_term"} =>
        \A T \in Loaded :
            request.term_id \in IdentifierForms(T) =>
                /\ response.status = 200
                /\ response.body = toJSON(T)
    /\ (request.op = "terms_similarity" /\ Offending(request) = {}
            /\ request.method \in SimilarityNames
            /\ request.combine \in CombinationNames) =>
        /\ response.status = 200
        /\ TermsOf(response.body.set1) =
               Dedup(TermsNamed(Split(request.set1)))
        /\ TermsOf(response.body.set2) =
               Dedup(TermsNamed(Split(request.set2)))
    /\ request.op \in SetOps =>
        \A tok \in RequestTokens(request) :
            get_hpo_id(tok) = IF AllDigits(tok) THEN IntId(DecimalValue(tok))
                              ELSE StrId(tok)

\* the list '4,HP:0000004' named term 4 twice, by integer and by canonical
\* string, and the set of the response holds term 4 once
C7_Witness ==
    /\ request.op = "terms_similarity"
    /\ request.set1 = JoinComma(<<Decimal(4), FormatId(4)>>)
    /\ request.set2 = OboName(5)
    /\ response.status = 200
    /\ TermsOf(response.body.set1) = <<4>>
    /\ TermsOf(response.body.set2) = <<5>>

----------------------------------------------------------------------------
(* Paging *)

RECURSIVE PagesFrom(_, _, _)
\* the pages (offset, k), (offset + k, k), ... of a search, concatenated
PagesFrom(query, k, offset) ==
    IF offset >= Len(search(query)) THEN <<>>
    ELSE SearchPage(query, k, offset) \o PagesFrom(query, k, offset + k)

\* C8: HPO_search returns the elements at positions offset .. offset+limit-1
\* of Ontology.search(query), in that order, fewer when the sequence is
\* shorter and none when limit = 0; the pages of size k taken at offsets
\* 0, k, 2k, ... concatenate to the search sequence.
C8_SearchPaging ==
    request.op = "HPO_search" =>
        LET found == search(request.query)
            first == request.offset
            last == Min(request.offset + request.limit, Len(found))
        IN  /\ response.status = 200
            /\ response.body.items =
                   [i \in 1..Max(last - first, 0) |-> toJSON(found[first + i])]
            /\ request.limit > 0 =>
                   PagesFrom(request.query, request.limit, 0) = found

\* a page of two taken from inside a search sequence of five
C8_Witness ==
    /\ request.op = "HPO_search"
    /\ request.offset = 1
    /\ request.limit = 2
    /\ Len(search(request.query)) = 5
    /\ BodyTerms(response.body) = <<2, 3>>

----------------------------------------------------------------------------
(* Ranking *)

EnrichmentOps == {"gene_enrichment", "omim_enrichment"}

\* the item of an entry of an enrichment response
ItemOf(req, entry) ==
    IF req.op = "gene_enrichment" THEN entry["gene:"] ELSE entry["omim:"]

\* C9: in the list the gene and omim enrichment endpoints return, the score
\* of every entry is <= the score of the entry that follows it.
C9_EnrichmentScoresAscending ==
    (request.op \in EnrichmentOps /\ response.status = 200) =>
        \A i \in 1..(Len(response.body.items) - 1) :
            ScoreLeq(response.body.items[i].enrichment,
                     response.body.items[i + 1].enrichment)

\* a page taken after an offset holds three entries whose scores rise
\* strictly at least once
C9_Witness ==
    /\ request.op \in EnrichmentOps
    /\ response.status = 200
    /\ request.offset > 0
    /\ Len(response.body.items) = 3
    /\ ScoreLess(response.body.items[1].enrichment,
                 response.body.items[3].enrichment)

\* C10: two candidates with equal enrichment score appear in the order of
\* their identifiers: consecutive entries of an enrichment response with
\* equal scores are in ascending item id, and two terms of a suggestion
\* list whose first candidate entries have equal scores are in ascending
\* term id.
C10_TiesInIdentifierOrder ==
    /\ (request.op \in EnrichmentOps /\ response.status = 200) =>
        \A i \in 1..(Len(response.body.items) - 1) :
            response.body.items[i].enrichment =
                    response.body.items[i + 1].enrichment
                => ItemOf(request, response.body.items[i]).id <
                       ItemOf(request, response.body.items[i + 1]).id
    /\ (request.op = "hpo_suggest" /\ response.status = 200) =>
        LET cands == CandidatesOf(request, request.offset).value
            hs == BodyTerms(response.body)
        IN  \A i, j \in DOMAIN hs :
                (/\ i < j
                 /\ cands[FirstIndex(cands, hs[i])].enrichment =
                        cands[FirstIndex(cands, hs[j])].enrichment)
                    => hs[i] < hs[j]

----------------------------------------------------------------------------
(* Method names *)

\* the endpoints that take an enrichment `method`
RankOps == EnrichmentOps \cup {"hpo_suggest"}

\* the response is an HTTP failure the handler raised: a status other than
\* 200 and a detail, not an exception that left the handler
StructuredFailure(resp) == resp.status # 200 /\ resp.exception = ""

\* C11: every gene enrichment, omim enrichment or suggest request whose
\* `method` is not the hypergeometric one fails with UnsupportedMethod,
\* handed to the caller as a structured failure, and returns no ranking.
C11_UnsupportedMethodIsStructuredFailure ==
    (request.op \in RankOps /\ Offending(request) = {}
        /\ request.method # Hypergeom)
        => StructuredFailure(response)

\* C12: a similarity request whose `method` is none of the nine method
\* names, or whose `combine` is none of the three combination names, is
\* rejected at the boundary with UnknownMethod as a structured failure; no
\* similarity score is returned for it.
C12_UnknownMethodRejectedAtBoundary ==
    (request.op = "terms_similarity" /\ Offending(request) = {}
        /\ (request.method \notin SimilarityNames
            \/ request.combine \notin CombinationNames))
        => StructuredFailure(response)

----------------------------------------------------------------------------
(* Neighbours *)

\* the terms of a returned collection of term records
MemberTerms(list) == {r.int : r \in list.members}

\* C13: the neighbours of a term T are exactly the terms N that share a
\* parent with T or share a child with T and are not T, not a parent of T
\* and not a child of T; the neighbours list of the response has no
\* duplicate, does not contain T and is disjoint from the parents list and
\* from the children list.
C13_NeighboursAreSiblings ==
    (request.op = "neighbour_terms" /\ response.status = 200) =>
        \A T \in Denoted(request.term_id) :
            LET ns == TermsOf(response.body.neighbours.items)
                ps == MemberTerms(response.body.parents)
                cs == MemberTerms(response.body.children)
            IN  /\ Range(ns) =
                       {N \in Loaded :
                           /\ \/ \E P \in parents[T] : N \in children[P]
                              \/ \E C \in children[T] : N \in parents[C]
                           /\ N # T
                           /\ N \notin parents[T]
                           /\ N \notin children[T]}
                /\ NoDuplicates(ns)
                /\ T \notin Range(ns)
                /\ Range(ns) \cap ps = {}
                /\ Range(ns) \cap cs = {}

\* the neighbours of term 3 were asked for: 2 is met twice (below the
\* root and above 4) and listed once; 5, a child of 3 that is also below
\* the root, and 1, a parent of 3 that is also above 5, are left out
C13_Witness ==
    /\ request.op = "neighbour_terms"
    /\ Denoted(request.term_id) = {3}
    /\ response.status = 200
    /\ TermsOf(response.body.neighbours.items) = <<2>>
    /\ MemberTerms(response.body.parents) = {1}
    /\ MemberTerms(response.body.children) = {4, 5}

----------------------------------------------------------------------------
(* Intersection and union of annotations *)

IntersectOps == {"intersecting_OMIM_diseases", "intersecting_genes"}
UnionOps == {"union_OMIM_diseases", "union_genes"}

\* the annotation sets and the item ids the endpoint op works on
AssocOf(op) ==
    IF op \in {"intersecting_OMIM_diseases", "union_OMIM_diseases"}
    THEN omim_diseases ELSE genes
IdsOf(op) ==
    IF op \in {"intersecting_OMIM_diseases", "union_OMIM_diseases"}
    THEN OmimIds ELSE GeneIds

\* the items associated with every term of S, and with at least one
InAll(op, S) == {i \in IdsOf(op) : \A t \in S : i \in AssocOf(op)[t]}
InAny(op, S) == {i \in IdsOf(op) : \E t \in S : i \in AssocOf(op)[t]}

\* the outcome of endpoint op for the identifier list set1
SetOutcome(op, set1) ==
    CASE op = "intersecting_OMIM_diseases" -> intersecting_OMIM_diseases(set1)
      [] op = "intersecting_genes" -> intersecting_genes(set1)
      [] op = "union_OMIM_diseases" -> union_OMIM_diseases(set1)
      [] op = "union_genes" -> union_genes(set1)

\* the tokens of a list in reverse order
Reversed(tokens) == [i \in DOMAIN tokens |-> tokens[Len(tokens) + 1 - i]]

\* the union endpoint for the same kind of item
UnionOpFor(op) ==
    IF op = "intersecting_OMIM_diseases" THEN "union_OMIM_diseases"
    ELSE "union_genes"

C15_IntersectReturnsAnyAsDocumented ==
    (request.op \in IntersectOps /\ Offending(request) = {}) =>
        /\ response.status = 200
        /\ response.body.members =
               {ItemJSON(i) : i \in InAny(request.op, QueryTerms(request))}

----------------------------------------------------------------------------
(* Startup order and shared state *)

\* the four enrichment models are set
ModelsSet ==
    /\ gene_model # NotBuilt
    /\ omim_model # NotBuilt
    /\ hpo_model_genes # NotBuilt
    /\ hpo_model_omim # NotBuilt

\* a step that starts a request handler
HandlerRuns == request = NoRequest /\ request' # NoRequest

\* C16: the ontology build and the construction of the four enrichment
\* models happen exactly once, at startup, and are complete before any
\* request handler runs: whenever requests are served or a handler has run,
\* the annotations are propagated and gene_model, omim_model,
\* hpo_model_genes and hpo_model_omim are set; each model is assigned only
\* while it is still unset, the ontology changes only during the build,
\* and a handler only runs in the serving phase with all four models set.
C16_BuildBeforeServe ==
    /\ []((pc = "serving" \/ request # NoRequest)
             => (PropagationDone /\ ModelsSet))
    /\ [][/\ gene_model' # gene_model =>
                 (gene_model = NotBuilt /\ pc = "gene_model")
          /\ omim_model' # omim_model =>
                 (omim_model = NotBuilt /\ pc = "omim_model")
          /\ hpo_model_genes' # hpo_model_genes =>
                 (hpo_model_genes = NotBuilt /\ pc = "hpo_model_genes")
          /\ hpo_model_omim' # hpo_model_omim =>
                 (hpo_model_omim = NotBuilt /\ pc = "hpo_model_omim")
          /\ ontologyVars' # ontologyVars =>
                 pc \in {"ontology", "annotations", "propagate"}
          /\ pc = "serving" => pc' = "serving"
          /\ HandlerRuns => (pc = "serving" /\ ModelsSet)]_vars

\* a suggest handler ran with seeds of both kinds, using all four models
C16_Witness ==
    /\ request.op = "hpo_suggest"
    /\ request.n_genes > 0
    /\ request.n_omim > 0
    /\ response.status = 200
    /\ Len(response.body.items) > 0
    /\ ModelsSet

\* the shared state is the one the build left: the relations of the
\* ontology file, the propagated annotations, and models that agree with
\* the annotations
AsBuilt ==
    /\ parents = [t \in OboTerms |-> OboIsA(t)]
    /\ children = [t \in OboTerms |-> {c \in OboTerms : t \in OboIsA(c)}]
    /\ \A t \in OboTerms :
        /\ genes[t] = {g \in GeneIds :
                          \E x \in dataFile.genes[g] \cap OboTerms :
                              x = t \/ t \in ancestors(x)}
        /\ omim_diseases[t] = {d \in OmimIds :
                                  \E x \in dataFile.omim[d] \cap OboTerms :
                                      x = t \/ t \in ancestors(x)}
    /\ gene_model = EnrichmentModel("gene", GeneIds, genes)
    /\ omim_model = EnrichmentModel("omim", OmimIds, omim_diseases)
    /\ hpo_model_genes = HPOEnrichment("gene", GeneIds, genes)
    /\ hpo_model_omim = HPOEnrichment("omim", OmimIds, omim_diseases)

----------------------------------------------------------------------------
(* Term sets *)

\* C18: a term set is duplicate-free in every reachable state: the sets
\* built from the queries of a request (with a repeated identifier, or two
\* forms of the same term) and the set built by the add calls of
\* neighbour_terms hold no term twice, and add(t) for a member t leaves the
\* set as it is: same members, same order, same size.
C18_TermSetsHaveNoDuplicates ==
    /\ (request.op = "terms_similarity" /\ response.status = 200) =>
        \A s \in {TermsOf(response.body.set1), TermsOf(response.body.set2)} :
            /\ NoDuplicates(s)
            /\ \A t \in Range(s) : add(s, t) = s
    /\ (request.op = "neighbour_terms" /\ response.status = 200) =>
        LET s == TermsOf(response.body.neighbours.items)
        IN  /\ NoDuplicates(s)
            /\ \A t \in Range(s) : add(s, t) = s

\* a list of two different tokens that name the same term gave a set with
\* one member
C18_Witness ==
    /\ request.op = "terms_similarity"
    /\ response.status = 200
    /\ LET tokens == Split(request.set1)
       IN  /\ Len(tokens) = 2
           /\ tokens[1] # tokens[2]
           /\ Denoted(tokens[1]) = Denoted(tokens[2])
    /\ Len(response.body.set1) = 1

----------------------------------------------------------------------------
(* Symmetry of similarity *)

\* the two sets of an answered similarity request
SimilaritySets(req) ==
    [a |-> get_hpo_set(req.set1).value, b |-> get_hpo_set(req.set2).value]

\* sim(a, b) = sim(b, a) for the terms of the two sets of req, every
\* pairwise method and both annotation kinds
PairwiseSymmetric(req) ==
    \A a \in Range(SimilaritySets(req).a), b \in Range(SimilaritySets(req).b) :
        \A method \in SimilarityNames, kind \in {"omim", "gene"} :
            TermSimilarity(method, kind, a, b) =
                TermSimilarity(method, kind, b, a)

\* the score of the response is the score of the request with its two
\* sets exchanged
SetSymmetric(req, resp) ==
    resp.body.similarity =
        set_similarity(SimilaritySets(req).b, SimilaritySets(req).a,
                       req.kind, req.method, req.combine).value

----------------------------------------------------------------------------
(* Term relationships *)

RECURSIVE Climb(_)
\* the terms of S and every term above one of them
Climb(S) ==
    LET up == S \cup UNION {parents[x] : x \in S}
    IN  IF up = S THEN S ELSE Climb(up)

\* b is reached from a by one or more parent edges
ReachedByParentEdges(a, b) == b \in Climb(parents[a])

\* C21: the term relationships are those of an acyclic hierarchy: a is
\* child_of b iff b is parent_of a iff b is reached from a by one or more
\* parent edges; no term is child_of itself; child_of never holds in both
\* directions; child_of is transitive; and two terms neither of which is
\* an ancestor of the other are related by neither parent_of nor child_of.
C21_RelationshipsFormAcyclicHierarchy ==
    \A a \in Loaded :
        /\ ~child_of(a, a)
        /\ \A b \in Loaded :
            LET Consistent(ab, ba, up, down) ==
                    /\ ab <=> parent_of(b, a)
                    /\ ab <=> up
                    /\ ~(ab /\ ba)
                    /\ ab => \A c \in Loaded : child_of(b, c) => child_of(a, c)
                    /\ (~up /\ ~down)
                           => /\ ~parent_of(a, b) /\ ~ab
                              /\ ~parent_of(b, a) /\ ~ba
            IN  Consistent(child_of(a, b), child_of(b, a),
                           ReachedByParentEdges(a, b), ReachedByParentEdges(b, a))

\* the ontology is loaded: term 4 is a child of the root two edges up and
\* of both of its parents, and terms 2 and 3, side by side below the root,
\* are not related
C21_Witness ==
    /\ Loaded = OboTerms
    /\ child_of(4, 1) /\ 1 \notin parents[4]
    /\ child_of(4, 2) /\ child_of(4, 3)
    /\ parent_of(1, 4)
    /\ ~child_of(2, 3) /\ ~child_of(3, 2)
    /\ ~parent_of(2, 3) /\ ~parent_of(3, 2)

----------------------------------------------------------------------------
(* Seeds of the suggestion *)

\* the number of seeds an hpo_suggest request asks for of a kind
SeedCount(req, kind) == IF kind = "gene" THEN req.n_genes ELSE req.n_omim

\* the item ranking of the query of req for a kind
ItemRanking(req, kind) ==
    enrichment(IF kind = "gene" THEN gene_model ELSE omim_model, req.method,
               get_hpo_set(req.set1).value).value

\* the first N items of the ranking of a kind
FirstRanked(req, kind) ==
    LET ranking == ItemRanking(req, kind)
    IN  {ranking[i].item : i \in 1..Min(SeedCount(req, kind), Len(ranking))}

\* the entries a kind contributes to the candidates: one per term, scored
\* by the seeds among the items of the term; none when the kind is disabled
Contribution(req, kind) ==
    LET Entry(t, seeds, items) ==
            [hpo |-> t, count |-> Cardinality(items \cap seeds),
             enrichment |-> HypergeomSf(Cardinality(items \cap seeds),
                                        Cardinality(IF kind = "gene" THEN GeneIds
                                                    ELSE OmimIds),
                                        Cardinality(items), Cardinality(seeds))]
        Entries(seeds) ==
            {Entry(t, seeds, IF kind = "gene" THEN genes[t]
                                              ELSE omim_diseases[t]) :
                t \in Loaded}
    IN  IF SeedCount(req, kind) = 0 THEN {}
        ELSE Entries(FirstRanked(req, kind))

\* the number of candidate entries of an hpo_suggest request
CandidateCount(req) ==
    (IF req.n_genes = 0 THEN 0 ELSE Cardinality(Loaded))
        + (IF req.n_omim = 0 THEN 0 ELSE Cardinality(Loaded))

\* C22: in hpo_suggest the seeds of the term-level enrichment of a kind
\* are exactly the first N items of the ranking of the query for that kind
\* (N = n_genes resp. n_omim); with N = 0 the kind is disabled: neither of
\* its enrichments is run and it contributes no candidate, so with n_genes
\* = n_omim = 0 there is no candidate at all.
C22_SeedsAreTopRankedItems ==
    (request.op = "hpo_suggest" /\ Offending(request) = {})
        => /\ response.exception = "UnsupportedMethod"
                  <=> /\ request.method # Hypergeom
                      /\ request.n_genes + request.n_omim > 0
           /\ response.exception # "UnsupportedMethod"
                  => LET Match(cands) ==
                             /\ Range(cands) = Contribution(request, "gene")
                                    \cup Contribution(request, "omim")
                             /\ Len(cands) = CandidateCount(request)
                     IN  Match(CandidatesOf(request, 0).value)
           /\ (request.n_genes = 0 /\ request.n_omim = 0)
                  => /\ CandidatesOf(request, 0) = Returned(<<>>)
                     /\ response.status = 200 => response.body.items = <<>>

\* one gene seeds the suggestion and the diseases are disabled: the
\* candidates are one entry per term, some holding the seed and some not,
\* and a term is returned
C22_Witness ==
    /\ SuggestRuns(request)
    /\ request.n_genes = 1
    /\ request.n_omim = 0
    /\ response.status = 200
    /\ response.body.items # <<>>
    /\ Len(ItemRanking(request, "gene")) > 1
    /\ LET cands == CandidatesOf(request, 0).value
       IN  /\ Len(cands) = Cardinality(Loaded)
           /\ \E i, j \in DOMAIN cands :
                  cands[i].count = 1 /\ cands[j].count = 0

----------------------------------------------------------------------------
(* Termination of the selection loop *)

\* the loop has ended: the handler returned or raised
LoopEnded == response.status # 0

\* C23: the selection loop of hpo_suggest ends for every input: every run
\* of the loop body removes exactly one entry of the candidate list, there
\* are at most |candidates| of them, and the loop ends with `limit` terms
\* collected or with the candidate list empty; with limit <= 0 the body
\* never runs and the result is the empty list.
C23_SelectionLoopTerminates ==
    /\ <>LoopEnded
    /\ [][response'.body.iterations # response.body.iterations
              => /\ response'.body.iterations = response.body.iterations + 1
                 /\ Len(response'.body.res) = Len(response.body.res) - 1]_vars
    /\ [](/\ response.body.iterations <= Len(request.candidates)
          /\ response.body.iterations + Len(response.body.res)
                 = Len(request.candidates)
          /\ LoopEnded
                 => /\ \/ Len(response.body.hpos) = request.limit
                       \/ response.body.res = <<>>
                       \/ request.limit <= 0
                    /\ request.limit <= 0
                           => /\ response.status = 200
                              /\ response.body.iterations = 0
                              /\ response.body.hpos = <<>>
                    /\ LET Same(outcome) ==
                               IF outcome.raised
                               THEN response.status = 500
                                       /\ response.exception = outcome.error
                               ELSE response.status = 200
                                       /\ response.body.hpos = outcome.value
                       IN  Same(SelectLoop(request.candidates, <<>>,
                                           request.limit, request.set1)))

\* the loop ran through a list of three candidates, one of them a term of
\* the query, kept one term and skipped the others, and ended with fewer
\* terms than `limit` and the list empty
C23_Witness ==
    /\ pc = "select"
    /\ LoopEnded
    /\ Len(request.candidates) = 3
    /\ response.body.iterations = 3
    /\ response.body.res = <<>>
    /\ Len(response.body.hpos) = 1
    /\ request.limit > 1
    /\ \E i \in 1..3 : request.candidates[i].hpo \in Range(request.set1)

----------------------------------------------------------------------------
(* Offset of the suggestion *)

\* the distinct terms of a candidate list that are not in the query of
\* req, in the order of their first entry
Selectable(cands, req) ==
    Dedup(SelectSeq([i \in DOMAIN cands |-> cands[i].hpo],
                    LAMBDA t : t \notin QueryTerms(req)))

\* the terms hpo_suggest returns for req with another offset
PageAt(req, offset) ==
    hpo_suggest(req.set1, req.method, req.limit, offset, req.n_genes,
                req.n_omim)

----------------------------------------------------------------------------
(* Paging of the enrichment *)

\* the kind of items an enrichment request ranks
KindOf(req) == IF req.op = "gene_enrichment" THEN "gene" ELSE "omim"

\* the answer of the endpoint of req for another page
EnrichmentPageAt(req, limit, offset) ==
    IF req.op = "gene_enrichment"
    THEN gene_enrichment(req.set1, req.method, limit, offset)
    ELSE omim_enrichment(req.set1, req.method, limit, offset)

\* the returned entries are the ranking entries from position first + 1 on,
\* in order, each with its item, count and score
SameEntries(req, items, ranking, first) ==
    \A i \in DOMAIN items :
        /\ first + i <= Len(ranking)
        /\ ItemOf(req, items[i]) = ItemJSON(ranking[first + i].item)
        /\ items[i].count = ranking[first + i].count
        /\ items[i].enrichment = ranking[first + i].enrichment

RECURSIVE EnrichmentPagesFrom(_, _, _, _)
\* the pages (offset, k), (offset + k, k), ... of the ranking of req,
\* concatenated, up to the end of a ranking of `len` entries
EnrichmentPagesFrom(req, k, offset, len) ==
    IF offset >= len THEN <<>>
    ELSE EnrichmentPageAt(req, k, offset).value.items
             \o EnrichmentPagesFrom(req, k, offset + k, len)

\* C25: for offset >= 0 and limit >= 0 the gene and omim enrichment
\* endpoints return exactly the entries at positions offset ..
\* offset+limit-1 of the ranking, in ranking order: at most `limit`
\* entries, none when the offset is past the end, each with the item,
\* count and score of its ranking entry; consecutive pages concatenate to
\* the ranking without gap or overlap.
C25_EnrichmentPaging ==
    (request.op \in EnrichmentOps /\ Offending(request) = {}
        /\ request.method = Hypergeom)
        => LET Paged(ranking, len) ==
                   /\ response.status = 200
                   /\ Len(response.body.items) =
                          Max(0, Min(request.offset + request.limit, len)
                                     - request.offset)
                   /\ SameEntries(request, response.body.items, ranking,
                                  request.offset)
                   /\ EnrichmentPageAt(request, request.limit,
                                       len + request.offset).value.items = <<>>
                   /\ request.limit > 0 =>
                          LET Whole(pages) ==
                                  /\ Len(pages) = len
                                  /\ SameEntries(request, pages, ranking, 0)
                          IN  Whole(EnrichmentPagesFrom(request, request.limit,
                                                        0, len))
               OfRanking(ranking) == Paged(ranking, Len(ranking))
           IN  OfRanking(ItemRanking(request, KindOf(request)))

\* a page of two entries from inside a ranking of five: it holds the third
\* and the fourth entry, and the third differs from the first
C25_Witness ==
    /\ request.op \in EnrichmentOps
    /\ response.status = 200
    /\ request.offset = 2
    /\ request.limit = 2
    /\ Len(response.body.items) = 2
    /\ LET ranking == ItemRanking(request, KindOf(request))
       IN  /\ Len(ranking) = 5
           /\ ItemOf(request, response.body.items[1]).id = ranking[3].item
           /\ ItemOf(request, response.body.items[2]).id = ranking[4].item
           /\ ranking[3].enrichment # ranking[1].enrichment

----------------------------------------------------------------------------
(* The single-file server and the routers *)

\* the handlers of server.py and the router handler of the same path
ServerOps ==
    {"server_HPO_term", "server_parent_terms", "server_child_terms",
     "server_term_associated_genes", "server_term_associated_OMIM_diseases"}

\* the router handlers of the same five paths
RouterOps ==
    {"HPO_term", "parent_terms", "child_terms", "term_associated_genes",
     "term_associated_OMIM_diseases"}

\* the outcome of the router handler for the path of a server.py handler
RouterOutcome(op, term_id) ==
    CASE op = "server_HPO_term" -> HPO_term(term_id)
      [] op = "server_parent_terms" -> parent_terms(term_id)
      [] op = "server_child_terms" -> child_terms(term_id)
      [] op = "server_term_associated_genes" -> term_associated_genes(term_id)
      [] op = "server_term_associated_OMIM_diseases" ->
             term_associated_OMIM_diseases(term_id)

\* the outcome of the server.py handler for the path of a router handler
ServerOutcome(op, term_id) ==
    CASE op = "HPO_term" -> server_HPO_term(term_id)
      [] op = "parent_terms" ->
             server_term_attribute("server_parent_terms", term_id)
      [] op = "child_terms" ->
             server_term_attribute("server_child_terms", term_id)
      [] op = "term_associated_genes" ->
             server_term_attribute("server_term_associated_genes", term_id)
      [] op = "term_associated_OMIM_diseases" ->
             server_term_attribute("server_term_associated_OMIM_diseases",
                                   term_id)

\* the response is a result, or 404 'HPO Term does not exist'
ResultOrNotFound(resp) ==
    \/ resp.status = 200
    \/ resp.status = 404 /\ resp.exception = ""
           /\ resp.body = FailureJSON(NotFoundDetail)

====
